---- MODULE Spec2Model ----
(***************************************************************************)
(* Expense tracker: the OTP helper and token issuance of                   *)
(* authorization.py, and the session state machine of app.py.              *)
(*                                                                         *)
(* Four specifications share this module:                                  *)
(*   Spec       generate_otp / verify_otp against the expiring store       *)
(*   SpecConc   the same calls running concurrently, one store command     *)
(*              at a time                                                  *)
(*   SpecToken  create_access_token and the clock                          *)
(*   SpecUI     the Streamlit session: login, registration, expenses, chat *)
(***************************************************************************)
EXTENDS Integers, Sequences, FiniteSets, TLC

VARIABLES
    r,          \* authorization.py module global r: "None" or "client"
    storeUp,    \* whether commands sent through r are answered by the store
    store,      \* the store's keyspace: a set of [key, val, ttl] entries
    gen,        \* history: per email, the most recent generate_otp that returned
    last,       \* history: the most recent call (or passage of time) and its outcome
    clock,      \* the process clock (datetime.utcnow()), in seconds
    tok,        \* the most recently issued access token's claims
    issue,      \* history: the arguments and time of that create_access_token call
    ss,         \* app.py st.session_state
    db,         \* the API server's expenses: expense id -> owner ("" when unused)
    got200,     \* history: POST /token answered 200 in this session
    act,        \* history: the most recent user action and how it ended
    calls       \* the concurrent OTP calls: per caller, where its call stands

otpVars == <<r, storeUp, store, gen, last>>
tokenVars == <<clock, tok, issue>>
uiVars == <<ss, db, got200, act>>
concVars == <<calls>>
vars == <<r, storeUp, store, gen, last, clock, tok, issue, ss, db, got200, act,
          calls>>

(***************************************************************************)
(* Bounds of the model                                                     *)
(***************************************************************************)
\* how many codes at the low end of randint's range are drawn (OtpMax is always drawn)
NumLowCodes == 1
\* a non-default expire_minutes a caller may pass
ShortExpire == 1

(***************************************************************************)
(* Program constants                                                       *)
(***************************************************************************)
OtpMin == 100000
OtpMax == 999999
DefaultExpire == 5

Emails == {"a@b.com", "c@d.com"}

OtpCodes == (OtpMin .. (OtpMin + NumLowCodes - 1)) \cup {OtpMax}

ExpireChoices == {DefaultExpire, ShortExpire}

(***************************************************************************)
(* Python values and str()                                                 *)
(* A value is [t, n, s]: t its type, n the number of an int, s the         *)
(* characters of a str or bytes.                                           *)
(***************************************************************************)
PyNone == [t |-> "none", n |-> 0, s |-> <<>>]
PyInt(i) == [t |-> "int", n |-> i, s |-> <<>>]
PyText(cs) == [t |-> "str", n |-> 0, s |-> cs]
PyBytes(cs) == [t |-> "bytes", n |-> 0, s |-> cs]

DigitChars == <<"0", "1", "2", "3", "4", "5", "6", "7", "8", "9">>

RECURSIVE IntStr(_)
\* the decimal form of an integer, most significant digit first
IntStr(i) ==
    IF i < 0 THEN <<"-">> \o IntStr(0 - i)
    ELSE IF i < 10 THEN <<DigitChars[i + 1]>>
    ELSE IntStr(i \div 10) \o <<DigitChars[(i % 10) + 1]>>

\* Python's str(v): an int prints its digits, a str is itself, and bytes print
\* as their literal b'...'
PyStr(v) ==
    CASE v.t = "int" -> IntStr(v.n)
      [] v.t = "str" -> v.s
      [] v.t = "bytes" -> <<"b", "'">> \o v.s \o <<"'">>
      [] OTHER -> <<"N", "o", "n", "e">>

\* Python truthiness, as `if not stored_otp` uses it
PyTruthy(v) ==
    CASE v.t = "int" -> v.n # 0
      [] v.t = "none" -> FALSE
      [] OTHER -> Len(v.s) > 0

(***************************************************************************)
(* The store client                                                        *)
(***************************************************************************)
\* authorization.py:41 passes decode_response=True; the client's option is
\* decode_responses, which therefore keeps its default
decode_responses == FALSE

\* the octets the client writes for a value
RedisEncode(v) == IF v.t = "int" THEN IntStr(v.n) ELSE v.s

\* the value the client returns for stored octets
RedisReply(octets) == IF decode_responses THEN PyText(octets) ELSE PyBytes(octets)

\* module load, lines 37-47: r is bound as soon as from_url returns; a failing
\* ping is caught and printed, and r keeps the client
LoadClient(urlOk, pingOk) == IF urlOk THEN "client" ELSE "None"

\* a key that leaves the email out
GenerateKeyNoEmail(email) == <<"otp:", "">>

\* redis_key = f"otp:{email}"
GenerateKey(email) == <<"otp:", email>>
VerifyKey(email) == <<"otp:", email>>

\* a time to live taken in hours
OtpTtlHours(expire_minutes) == 60 * expire_minutes

\* timedelta(minutes=expire_minutes), in minutes
OtpTtl(expire_minutes) == expire_minutes

Held(st, k) == {x \in st : x.key = k}

\* r.get(key)
StoreGet(st, k) ==
    IF Held(st, k) = {} THEN PyNone
    ELSE RedisReply((CHOOSE x \in Held(st, k) : TRUE).val)

\* r.setex(key, ttl, value)
StoreSetex(st, k, ttl, v) ==
    {x \in st : x.key # k} \cup {[key |-> k, val |-> RedisEncode(v), ttl |-> ttl]}

\* r.delete(key)
StoreDelete(st, k) == {x \in st : x.key # k}

(***************************************************************************)
(* Inputs                                                                  *)
(***************************************************************************)
\* what a caller may submit as otp_input: a code as an int, as text, or as bytes
OtpInputs ==
    {PyInt(c) : c \in OtpCodes}
        \cup {PyText(IntStr(c)) : c \in OtpCodes}
        \cup {PyBytes(IntStr(c)) : c \in OtpCodes}

\* gen[e]: the most recent generate_otp(e) whose code no verify_otp has consumed:
\* code the code it returned (0: there is none), minutes its expire_minutes, age
\* the minutes since (counted up to DefaultExpire), old the pending code it
\* overwrote (0: none), remembered while the new code is stored
NoGen == [code |-> 0, age |-> 0, minutes |-> 0, old |-> 0]

\* last: the call's name and arguments, the code a generate_otp returned, the
\* truth value a verify_otp returned, and the exception raised ("" when none)
Call(op, email, input, code, ok, exc) ==
    [op |-> op, email |-> email, input |-> input, code |-> code, ok |-> ok,
     exc |-> exc]

NoCall == Call("none", "", PyNone, 0, FALSE, "")

InitOtp ==
    /\ \E urlOk \in BOOLEAN, pingOk \in BOOLEAN :
          /\ r = LoadClient(urlOk, pingOk)
          /\ storeUp = pingOk
    /\ store = {}
    /\ gen = [e \in Emails |-> NoGen]
    /\ last = NoCall

\* def generate_otp(email, expire_minutes=5)
generate_otp(email, expire_minutes) ==
    IF r = "None"
    THEN /\ last' = Call("generate_otp", email, PyNone, 0, FALSE,
                         "Redis client is not connected.")
         /\ UNCHANGED <<r, storeUp, store, gen>>
    ELSE \E otp \in OtpCodes :
            IF ~storeUp
            THEN /\ last' = Call("generate_otp", email, PyNone, 0, FALSE,
                                 "ConnectionError")
                 /\ UNCHANGED <<r, storeUp, store, gen>>
            ELSE /\ store' = StoreSetex(store, GenerateKey(email),
                                        OtpTtl(expire_minutes), PyInt(otp))
                 /\ gen' = [gen EXCEPT ![email] =
                               [code |-> otp, age |-> 0, minutes |-> expire_minutes,
                                old |-> IF Held(store, GenerateKey(email)) = {}
                                        THEN 0 ELSE gen[email].code]]
                 /\ last' = Call("generate_otp", email, PyNone, otp, TRUE, "")
                 /\ UNCHANGED <<r, storeUp>>

\* def verify_otp(email, otp_input)
verify_otp(email, otp_input) ==
    IF r = "None"
    THEN /\ last' = Call("verify_otp", email, otp_input, 0, FALSE, "")
         /\ UNCHANGED <<r, storeUp, store, gen>>
    ELSE IF ~storeUp
    THEN /\ last' = Call("verify_otp", email, otp_input, 0, FALSE, "ConnectionError")
         /\ UNCHANGED <<r, storeUp, store, gen>>
    ELSE LET stored_otp == StoreGet(store, VerifyKey(email)) IN
         IF ~PyTruthy(stored_otp)
         THEN /\ last' = Call("verify_otp", email, otp_input, 0, FALSE, "")
              /\ UNCHANGED <<r, storeUp, store, gen>>
         ELSE IF PyStr(stored_otp) # PyStr(otp_input)
         THEN /\ last' = Call("verify_otp", email, otp_input, 0, FALSE, "")
              /\ UNCHANGED <<r, storeUp, store, gen>>
         ELSE /\ store' = StoreDelete(store, VerifyKey(email))
              /\ gen' = [gen EXCEPT ![email] = NoGen]
              /\ last' = Call("verify_otp", email, otp_input, 0, TRUE, "")
              /\ UNCHANGED <<r, storeUp>>

\* One minute passes. The store discards every key whose time to live has run
\* out; no code of the program runs.
Tick ==
    /\ store' = {[x EXCEPT !.ttl = x.ttl - 1] : x \in {y \in store : y.ttl > 1}}
    /\ gen' = [e \in Emails |->
                 IF gen[e].code = 0 THEN gen[e]
                 ELSE [gen[e] EXCEPT
                         !.age = IF @ < DefaultExpire THEN @ + 1 ELSE @,
                         !.old = IF Held(store', VerifyKey(e)) = {} THEN 0 ELSE @]]
    /\ last' = Call("tick", "", PyNone, 0, FALSE, "")
    /\ UNCHANGED <<r, storeUp>>

(***************************************************************************)
(* Concurrent OTP calls (authorization.py, lines 49-77)                    *)
(* Each caller makes one call. generate_otp sends the store one command;   *)
(* verify_otp sends two, r.get (line 67) and r.delete (line 76), and other *)
(* callers' commands may reach the store between them.                     *)
(***************************************************************************)
\* bound: the number of callers
NumCalls == 3

Callers == 1 .. NumCalls

\* calls[p]: pc where the call stands ("idle", "delete": between line 73 and
\* line 76, "done"), op and email the call, stored the value r.get returned to
\* a verify_otp that matched and src the caller whose generate_otp stored it,
\* code the code a generate_otp returned and src the caller whose generate_otp
\* overwrote it since (0: none), ret the truth value a verify_otp returned
Idle ==
    [pc |-> "idle", op |-> "none", email |-> "", stored |-> PyNone, src |-> 0,
     code |-> 0, ret |-> FALSE]

Returned(op, email, stored, src, code, ret) ==
    [pc |-> "done", op |-> op, email |-> email, stored |-> stored, src |-> src,
     code |-> code, ret |-> ret]

InitCalls == calls = [p \in Callers |-> Idle]

\* the callers whose generate_otp(email) has returned a code
Generated(email) ==
    {q \in Callers : calls[q].op = "generate_otp" /\ calls[q].email = email
                     /\ calls[q].code # 0}

\* history: the caller whose generate_otp wrote the value now under the email's
\* key, 0 when the key is not held
Writer(email) ==
    LET latest == {q \in Generated(email) : calls[q].src = 0} IN
    IF Held(store, VerifyKey(email)) = {} \/ latest = {} THEN 0
    ELSE CHOOSE q \in latest : TRUE

\* generate_otp run by caller p: its one store command is r.setex (line 57)
generate_otp_call(p, email, expire_minutes) ==
    /\ calls[p].pc = "idle"
    /\ generate_otp(email, expire_minutes)
    /\ calls' = [q \in Callers |->
                    IF q = p
                    THEN Returned("generate_otp", email, PyNone, 0, last'.code,
                                  last'.ok)
                    ELSE IF last'.ok /\ q \in Generated(email) /\ calls[q].src = 0
                    THEN [calls[q] EXCEPT !.src = p]
                    ELSE calls[q]]

\* verify_otp run by caller p, lines 62-73: the guard, r.get and the two tests
verify_otp_get(p, email, otp_input) ==
    /\ calls[p].pc = "idle"
    /\ IF r = "None"
       THEN /\ last' = Call("verify_otp", email, otp_input, 0, FALSE, "")
            /\ calls' = [calls EXCEPT ![p] =
                            Returned("verify_otp", email, PyNone, 0, 0, FALSE)]
       ELSE IF ~storeUp
       THEN /\ last' = Call("verify_otp", email, otp_input, 0, FALSE,
                            "ConnectionError")
            /\ calls' = [calls EXCEPT ![p] =
                            Returned("verify_otp", email, PyNone, 0, 0, FALSE)]
       ELSE LET stored_otp == StoreGet(store, VerifyKey(email)) IN
            IF ~PyTruthy(stored_otp) \/ PyStr(stored_otp) # PyStr(otp_input)
            THEN /\ last' = Call("verify_otp", email, otp_input, 0, FALSE, "")
                 /\ calls' = [calls EXCEPT ![p] =
                                 Returned("verify_otp", email, PyNone, 0, 0, FALSE)]
            ELSE /\ calls' = [calls EXCEPT ![p] =
                                 [pc |-> "delete", op |-> "verify_otp",
                                  email |-> email, stored |-> stored_otp,
                                  src |-> Writer(email), code |-> 0,
                                  ret |-> FALSE]]
                 /\ UNCHANGED last
    /\ UNCHANGED <<r, storeUp, store, gen>>

\* verify_otp run by caller p, lines 75-77: r.delete and return True
verify_otp_delete(p) ==
    /\ calls[p].pc = "delete"
    /\ store' = StoreDelete(store, VerifyKey(calls[p].email))
    /\ gen' = [gen EXCEPT ![calls[p].email] = NoGen]
    /\ last' = Call("verify_otp", calls[p].email, calls[p].stored, 0, TRUE, "")
    /\ calls' = [calls EXCEPT ![p] =
                    Returned("verify_otp", calls[p].email, calls[p].stored,
                             calls[p].src, 0, TRUE)]
    /\ UNCHANGED <<r, storeUp>>

(***************************************************************************)
(* Token issuance (authorization.py, create_access_token)                  *)
(***************************************************************************)
\* expire_time's default
DefaultTokenMinutes == 30
\* bounds: the user ids and the explicit expire_time values tried, the latest
\* clock value at which a token is issued, and the clock's horizon
MaxUserId == 2
MaxTokenMinutes == 1
MaxIssueClock == 2
MaxClock == 1930

UserIds == 0 .. MaxUserId
TokenMinutes == 0 .. MaxTokenMinutes

\* an expiry that takes expire_time in seconds
TokenExpirySeconds(now, expire_time) == now + expire_time

\* expire = datetime.utcnow() + timedelta(minutes=expire_time), in seconds
TokenExpiry(now, expire_time) == now + 60 * expire_time

\* payload = {"sub": str(user_id), "exp": expire}, signed with the configured
\* secret and algorithm
TokenPayload(user_id, now, expire_time) ==
    [sub |-> PyStr(PyInt(user_id)), exp |-> TokenExpiry(now, expire_time),
     key |-> "secret_key", alg |-> "algorithm"]

\* the decoder of the API server: the signature is the configured one and the
\* clock has not passed the expiry claim
TokenAccepted(t, now) ==
    /\ t.key = "secret_key"
    /\ t.alg = "algorithm"
    /\ ~(t.exp < now)

NoToken == [sub |-> <<>>, exp |-> 0, key |-> "", alg |-> ""]
NoIssue == [user_id |-> 0, given |-> FALSE, expire_time |-> 0, at |-> 0, n |-> 0]

InitToken ==
    /\ clock = 0
    /\ tok = NoToken
    /\ issue = NoIssue

\* def create_access_token(user_id, expire_time=30); `given` tells whether the
\* caller passes expire_time
create_access_token(user_id, given, expire_time) ==
    LET t == IF given THEN expire_time ELSE DefaultTokenMinutes IN
    /\ clock <= MaxIssueClock
    /\ tok' = TokenPayload(user_id, clock, t)
    /\ issue' = [user_id |-> user_id, given |-> given,
                 expire_time |-> IF given THEN expire_time ELSE 0,
                 at |-> clock, n |-> 1]
    /\ UNCHANGED clock

\* the process clock advances by a second or by a minute
ClockSteps == {1, 60}

Advance(d) ==
    /\ clock + d <= MaxClock
    /\ clock' = clock + d
    /\ UNCHANGED <<tok, issue>>

(***************************************************************************)
(* The dashboard session (app.py)                                          *)
(***************************************************************************)
\* bounds: the expenses the server holds and the entries of the chat transcript
MaxExpenses == 2
MaxChat == 4

UiEmails == {"a@b.com", "c@d.com"}
ExpenseIds == 1 .. MaxExpenses

NoneToken == <<>>
\* the bearer token POST /token returns for a user
AccessToken(email) == <<"jwt", email>>
TokenUser(t) == IF t = NoneToken THEN "" ELSE t[2]

\* an expense dict as the API returns it; owner is whose it is on the server
Expense(id) == [id |-> id, owner |-> db[id]]
Absent == [id |-> 0, owner |-> ""]

Apology == "Sorry, I encountered an error."

\* lines 51-57: session state initialisation
InitSession ==
    [token |-> NoneToken, user_email |-> "None", chat_history |-> <<>>,
     reg_email |-> "absent", edit_expense |-> Absent]

\* how a request ends: status 200, another status, or an exception of the
\* transport
Outcomes == {"200", "non200", "exception"}

Action(name, outcome, requests) ==
    [name |-> name, outcome |-> outcome, requests |-> requests]

InitUI ==
    /\ ss = InitSession
    /\ db = [i \in ExpenseIds |-> ""]
    /\ got200 = FALSE
    /\ act = Action("none", "", 0)

\* `if not st.session_state.token` (line 213): which page a run renders
Page(s) == IF s.token = NoneToken THEN "auth" ELSE "dashboard"

\* GET /getexpense with the session's bearer token: the ids the run lists
Listed(s) == {i \in ExpenseIds : db[i] # "" /\ db[i] = TokenUser(s.token)}

\* a login that stores the token whatever the status
loginAnyStatus(s, email, outcome) ==
    IF outcome # "exception"
    THEN [s EXCEPT !.token = AccessToken(email), !.user_email = email]
    ELSE s

\* def login(email, password): the session after the call
login(s, email, outcome) ==
    IF outcome = "200"
    THEN [s EXCEPT !.token = AccessToken(email), !.user_email = email]
    ELSE s

\* a logout that keeps the chat transcript
logoutKeepsChat(s) == [s EXCEPT !.token = NoneToken, !.user_email = "None"]

\* def logout()
logout(s) ==
    [s EXCEPT !.token = NoneToken, !.user_email = "None", !.chat_history = <<>>]

\* register_step1 handler, lines 246-256
register_step1(s, reg_email, outcome) ==
    IF outcome = "200" THEN [s EXCEPT !.reg_email = reg_email] ELSE s

\* register_step2 handler, lines 269-284
register_step2(s, outcome) ==
    IF outcome = "200" THEN [s EXCEPT !.reg_email = "absent"] ELSE s

\* Edit button, lines 432-434
edit_button(s, expense) == [s EXCEPT !.edit_expense = expense]

\* edit_expense_form Update, lines 471-483
edit_update(s, outcome) ==
    IF outcome = "200" THEN [s EXCEPT !.edit_expense = Absent] ELSE s

\* edit_expense_form Cancel, lines 486-488
edit_cancel(s) == [s EXCEPT !.edit_expense = Absent]

\* AI assistant chat handler, lines 511-525
chat_handler(s, user_query, outcome, response) ==
    LET asked == Append(s.chat_history, [role |-> "user", content |-> user_query])
    IN  IF outcome = "200"
        THEN [s EXCEPT !.chat_history =
                 Append(asked, [role |-> "assistant", content |-> response])]
        ELSE [s EXCEPT !.chat_history =
                 Append(asked, [role |-> "assistant", content |-> Apology])]

\* Clear Chat button, lines 528-530
clear_chat(s) == [s EXCEPT !.chat_history = <<>>]

\* Login form (lines 221-235)
LoginForm ==
    /\ Page(ss) = "auth"
    /\ \E email \in UiEmails \cup {""}, password \in {"", "pw"} :
          IF email # "" /\ password # ""
          THEN \E outcome \in Outcomes :
                  /\ ss' = login(ss, email, outcome)
                  /\ got200' = (got200 \/ outcome = "200")
                  /\ act' = Action("login", outcome, 1)
          ELSE /\ act' = Action("login", "not_sent", 0)
               /\ UNCHANGED <<ss, got200>>
    /\ UNCHANGED <<db, otpVars, tokenVars, concVars>>

\* Send OTP form (lines 242-256)
RegisterStep1 ==
    /\ Page(ss) = "auth"
    /\ \E reg_email \in UiEmails \cup {""} :
          IF reg_email # ""
          THEN \E outcome \in Outcomes :
                  /\ ss' = register_step1(ss, reg_email, outcome)
                  /\ act' = Action("send_otp", outcome, 1)
          ELSE /\ act' = Action("send_otp", "not_sent", 0)
               /\ UNCHANGED ss
    /\ UNCHANGED <<db, got200, otpVars, tokenVars, concVars>>

\* Register form (lines 259-284); int(otp) of a non-numeric code raises inside
\* verify_otp_and_register before any request is made
RegisterStep2 ==
    /\ Page(ss) = "auth"
    /\ ss.reg_email # "absent"
    /\ \E otp \in {"", "123456", "abc"}, reg_password \in {"", "pw"},
          confirm_password \in {"pw", "other"} :
          IF otp # "" /\ reg_password # "" /\ reg_password = confirm_password
          THEN IF otp = "abc"
               THEN /\ ss' = register_step2(ss, "value_error")
                    /\ act' = Action("register", "value_error", 0)
               ELSE \E outcome \in Outcomes :
                       /\ ss' = register_step2(ss, outcome)
                       /\ act' = Action("register", outcome, 1)
          ELSE /\ act' = Action("register", "not_sent", 0)
               /\ UNCHANGED ss
    /\ UNCHANGED <<db, got200, otpVars, tokenVars, concVars>>

\* Logout button (lines 291-292)
LogoutButton ==
    /\ Page(ss) = "dashboard"
    /\ ss' = logout(ss)
    /\ act' = Action("logout", "done", 0)
    /\ UNCHANGED <<db, got200, otpVars, tokenVars, concVars>>

\* Add Expense form (lines 371-394); on 200 the server stores a new expense of
\* the token's user
AddExpenseForm ==
    /\ Page(ss) = "dashboard"
    /\ \E category \in {"", "Food"}, amount \in {0, 5} :
          IF category # "" /\ amount # 0
          THEN \E outcome \in Outcomes :
                  /\ act' = Action("add_expense", outcome, 1)
                  /\ IF outcome = "200"
                     THEN \E i \in ExpenseIds :
                             /\ db[i] = ""
                             /\ db' = [db EXCEPT ![i] = TokenUser(ss.token)]
                     ELSE UNCHANGED db
          ELSE /\ act' = Action("add_expense", "not_sent", 0)
               /\ UNCHANGED db
    /\ UNCHANGED <<ss, got200, otpVars, tokenVars, concVars>>

\* Edit button of a listed expense (lines 432-434)
EditButton ==
    /\ Page(ss) = "dashboard"
    /\ \E i \in Listed(ss) :
          /\ ss' = edit_button(ss, Expense(i))
          /\ act' = Action("edit", "done", 0)
    /\ UNCHANGED <<db, got200, otpVars, tokenVars, concVars>>

\* Delete button of a listed expense (lines 437-443)
DeleteButton ==
    /\ Page(ss) = "dashboard"
    /\ \E i \in Listed(ss), outcome \in Outcomes :
          /\ act' = Action("delete_expense", outcome, 1)
          /\ db' = IF outcome = "200" THEN [db EXCEPT ![i] = ""] ELSE db
    /\ UNCHANGED <<ss, got200, otpVars, tokenVars, concVars>>

\* Update button of the edit form (lines 446-483); the form is rendered when the
\* run lists at least one expense and the session holds edit_expense
EditFormUpdate ==
    /\ Page(ss) = "dashboard"
    /\ Listed(ss) # {}
    /\ ss.edit_expense # Absent
    /\ \E outcome \in Outcomes :
          /\ ss' = edit_update(ss, outcome)
          /\ act' = Action("update_expense", outcome, 1)
    /\ UNCHANGED <<db, got200, otpVars, tokenVars, concVars>>

\* Cancel button of the edit form (lines 485-488)
EditFormCancel ==
    /\ Page(ss) = "dashboard"
    /\ Listed(ss) # {}
    /\ ss.edit_expense # Absent
    /\ ss' = edit_cancel(ss)
    /\ act' = Action("cancel_edit", "done", 0)
    /\ UNCHANGED <<db, got200, otpVars, tokenVars, concVars>>

\* Chat input (lines 509-525)
ChatInput ==
    /\ Page(ss) = "dashboard"
    /\ Len(ss.chat_history) + 2 <= MaxChat
    /\ \E outcome \in Outcomes :
          /\ ss' = chat_handler(ss, "q", outcome, "a")
          /\ act' = Action("chat", outcome, 1)
    /\ UNCHANGED <<db, got200, otpVars, tokenVars, concVars>>

\* Clear Chat button (lines 528-530)
ClearChat ==
    /\ Page(ss) = "dashboard"
    /\ ss' = clear_chat(ss)
    /\ act' = Action("clear_chat", "done", 0)
    /\ UNCHANGED <<db, got200, otpVars, tokenVars, concVars>>

(***************************************************************************)
(* Specifications                                                          *)
(***************************************************************************)
Init == InitOtp /\ InitToken /\ InitUI /\ InitCalls

Generate ==
    /\ \E e \in Emails, m \in ExpireChoices : generate_otp(e, m)
    /\ UNCHANGED <<tokenVars, uiVars, concVars>>

Verify ==
    /\ \E e \in Emails, i \in OtpInputs : verify_otp(e, i)
    /\ UNCHANGED <<tokenVars, uiVars, concVars>>

Minute == Tick /\ UNCHANGED <<tokenVars, uiVars, concVars>>

Next == Generate \/ Verify \/ Minute

Spec == Init /\ [][Next]_vars

Issue ==
    /\ \E u \in UserIds, given \in BOOLEAN, t \in TokenMinutes :
          create_access_token(u, given, t)
    /\ UNCHANGED <<otpVars, uiVars, concVars>>

Pass ==
    /\ \E d \in ClockSteps : Advance(d)
    /\ UNCHANGED <<otpVars, uiVars, concVars>>

NextToken == Issue \/ Pass

SpecToken == Init /\ [][NextToken]_vars

NextUI ==
    \/ LoginForm
    \/ RegisterStep1
    \/ RegisterStep2
    \/ LogoutButton
    \/ AddExpenseForm
    \/ EditButton
    \/ DeleteButton
    \/ EditFormUpdate
    \/ EditFormCancel
    \/ ChatInput
    \/ ClearChat

SpecUI == Init /\ [][NextUI]_vars

ConcGenerate ==
    /\ \E p \in Callers, e \in Emails, m \in ExpireChoices :
          generate_otp_call(p, e, m)
    /\ UNCHANGED <<tokenVars, uiVars>>

ConcVerifyGet ==
    /\ \E p \in Callers, e \in Emails, i \in OtpInputs : verify_otp_get(p, e, i)
    /\ UNCHANGED <<tokenVars, uiVars>>

ConcVerifyDelete ==
    /\ \E p \in Callers : verify_otp_delete(p)
    /\ UNCHANGED <<tokenVars, uiVars>>

NextConc == ConcGenerate \/ ConcVerifyGet \/ ConcVerifyDelete \/ Minute

SpecConc == Init /\ [][NextConc]_vars

(***************************************************************************)
(* Properties                                                              *)
(***************************************************************************)
Key(e) == VerifyKey(e)
Pending(e) == Held(store, Key(e))

\* C1: after generate_otp(e) returns code C, the next call verify_otp(e, C)
\* returns true, and a verify_otp(e, C) that directly follows a successful one
\* returns false.
C1_AcceptedExactlyOnce ==
    [][/\ (/\ last.op = "generate_otp" /\ last.ok
           /\ last'.op = "verify_otp" /\ last'.email = last.email
           /\ last'.input = PyInt(last.code))
          => last'.ok
       /\ (/\ last.op = "verify_otp" /\ last.ok
           /\ last'.op = "verify_otp" /\ last'.email = last.email
           /\ last'.input = last.input)
          => ~last'.ok]_vars

\* C2: every verify_otp call returns; it returns true exactly when the store
\* holds a value under the email's key whose string form, as the client returns
\* it, equals the string form of the submitted code; when it returns false the
\* store is left as it was.
C2_VerifyIffStoredEqual ==
    [][last'.op = "verify_otp" =>
          LET reply == StoreGet(store, Key(last'.email)) IN
          /\ last'.exc = ""
          /\ last'.ok <=> (reply # PyNone /\ PyStr(reply) = PyStr(last'.input))
          /\ ~last'.ok => store' = store]_vars

\* C3: the store holds at most one entry per key, and every entry is the code
\* the most recent generate_otp of its email returned; a verify_otp returns
\* true only for that code's stored form, and while a code that overwrote a
\* different pending code is stored, verifying the old code, in any form,
\* returns false.
C3_OneLiveOtpPerEmail ==
    /\ [](/\ \A x \in store, y \in store : x.key = y.key => x = y
          /\ \A x \in store : \E e \in Emails :
                /\ x.key = Key(e)
                /\ gen[e].code # 0
                /\ x.val = IntStr(gen[e].code)
          /\ \A e \in Emails :
                (/\ last.op = "verify_otp" /\ last.email = e
                 /\ gen[e].old # 0 /\ gen[e].old # gen[e].code
                 /\ last.input \in {PyInt(gen[e].old), PyText(IntStr(gen[e].old)),
                                    PyBytes(IntStr(gen[e].old))})
                => (~last.ok /\ last.exc = ""))
    /\ [][(last'.op = "verify_otp" /\ last'.ok) =>
             /\ gen[last'.email].code # 0
             /\ PyStr(last'.input)
                   = PyStr(RedisReply(IntStr(gen[last'.email].code)))]_vars

\* a first code was overwritten by a different one while pending, and the old
\* code, submitted in the form the store returns, has just been refused while
\* the new code is still stored
C3_Witness ==
    \E e \in Emails :
       /\ gen[e].old # 0
       /\ gen[e].old # gen[e].code
       /\ Pending(e) # {}
       /\ last = Call("verify_otp", e, PyBytes(IntStr(gen[e].old)), 0, FALSE, "")

\* C4: when the store does not answer at module load, every generate_otp raises
\* the explicit "Redis client is not connected." error and every verify_otp
\* returns false without raising.
C4_UnreachableStoreFailsClosed ==
    ~storeUp =>
       /\ last.op = "generate_otp" => last.exc = "Redis client is not connected."
       /\ last.op = "verify_otp" => (~last.ok /\ last.exc = "")

\* C5: a verify_otp for an email with no pending OTP returns false, does not
\* raise and leaves the store unchanged.
C5_AbsentKeyFailsClosed ==
    [][(last'.op = "verify_otp" /\ Pending(last'.email) = {}) =>
          /\ ~last'.ok
          /\ last'.exc = ""
          /\ store' = store]_vars

\* C6: for an email whose most recent generate_otp used the default expiry, the
\* stored code's remaining time is 5 minutes less the minutes since that call;
\* once 5 minutes have passed the key is absent and verify_otp returns false.
C6_ExpiresAfterFiveMinutes ==
    \A e \in Emails :
       (gen[e].code # 0 /\ gen[e].minutes = DefaultExpire) =>
          /\ \A x \in Pending(e) : x.ttl = 5 - gen[e].age
          /\ gen[e].age >= 5 => Pending(e) = {}
          /\ (gen[e].age >= 5 /\ last.op = "verify_otp" /\ last.email = e)
             => ~last.ok

\* the fifth minute after a default generate_otp has just passed, the code was
\* never consumed, and the key is gone without any call of the program
C6_Witness ==
    \E e \in Emails :
       /\ gen[e].code # 0
       /\ gen[e].minutes = DefaultExpire
       /\ gen[e].age = 5
       /\ last.op = "tick"
       /\ Pending(e) = {}

\* C7: the issued token's subject is the string form of the user id, its expiry
\* is the issue time plus expire_time minutes (30 when omitted), and it is
\* accepted while the clock is before the expiry and rejected once it is after.
C7_TokenClaims ==
    issue.n = 1 =>
       /\ tok.sub = IntStr(issue.user_id)
       /\ tok.exp = issue.at + 60 * (IF issue.given THEN issue.expire_time ELSE 30)
       /\ clock < tok.exp => TokenAccepted(tok, clock)
       /\ clock > tok.exp => ~TokenAccepted(tok, clock)

\* a token issued without expire_time is past its 30 minutes and is rejected
C7_Witness ==
    /\ issue.n = 1
    /\ ~issue.given
    /\ issue.user_id = MaxUserId
    /\ clock > issue.at + 1800
    /\ ~TokenAccepted(tok, clock)

\* C8: a session token is held only after POST /token answered 200 in this
\* session, and the token and user email change only in a login that got 200
\* or in a logout.
C8_TokenOnlyFromLogin ==
    /\ [](ss.token # NoneToken => got200)
    /\ [][(ss'.token # ss.token \/ ss'.user_email # ss.user_email) =>
             \/ act'.name = "login" /\ act'.outcome = "200"
             \/ act'.name = "logout"]_vars

\* a login has just been answered 200 and the session holds its token
C8_Witness ==
    /\ act = Action("login", "200", 1)
    /\ ss.token # NoneToken
    /\ ss.token = AccessToken(ss.user_email)

\* C9: right after logout the token and user email are None, the chat
\* transcript is empty and the next run renders the authentication page.
C9_LogoutClearsSession ==
    [][act'.name = "logout" =>
          /\ ss'.token = NoneToken
          /\ ss'.user_email = "None"
          /\ ss'.chat_history = <<>>
          /\ Page(ss') = "auth"]_vars

\* a logout has just happened in a session that had logged in
C9_Witness ==
    /\ act.name = "logout"
    /\ got200
    /\ Page(ss) = "auth"

\* C10: an action whose request fails, by an exception of the transport or by a
\* status other than 200, leaves the whole session state as it was and has
\* issued its request once.
C10_FailureLeavesSession ==
    [][act'.outcome \in {"non200", "exception"} =>
          /\ ss' = ss
          /\ act'.requests = 1]_vars

\* C11: of the concurrent verify_otp calls whose r.get read one and the same
\* pending code, at most one returns true.
C11_OneConcurrentWinner ==
    \A p \in Callers, q \in Callers :
       (/\ p # q
        /\ calls[p].op = "verify_otp" /\ calls[p].pc = "done" /\ calls[p].ret
        /\ calls[q].op = "verify_otp" /\ calls[q].pc = "done" /\ calls[q].ret
        /\ calls[p].email = calls[q].email)
       => calls[p].src # calls[q].src

\* C12: a stored code leaves the store only when its time to live runs out,
\* when a generate_otp of its email overwrites it, or by the r.delete of a
\* verify_otp that compared against that very value.
C12_DeleteOnlyComparedCode ==
    [][\A x \in store :
          (\A y \in store' : y.key # x.key \/ y.val # x.val) =>
             \/ calls' = calls /\ x.ttl = 1
             \/ \E p \in Callers :
                   /\ calls[p].pc = "idle"
                   /\ calls'[p].op = "generate_otp"
                   /\ GenerateKey(calls'[p].email) = x.key
             \/ \E p \in Callers :
                   /\ calls[p].pc = "delete"
                   /\ calls'[p].pc = "done"
                   /\ VerifyKey(calls[p].email) = x.key
                   /\ calls[p].stored = RedisReply(x.val)]_vars

\* the frame of a refused verify_otp: a call that returns false leaves the
\* store, times to live included, as it was, and a call for one email leaves
\* every other email's entry as it was
C13_Frame ==
    [][/\ (last'.op = "verify_otp" /\ ~last'.ok) => store' = store
       /\ \A e \in Emails :
             (last'.op \in {"generate_otp", "verify_otp"} /\ last'.email # e)
                => Held(store', Key(e)) = Held(store, Key(e))]_vars

\* C13: a verify_otp refused because the codes differ leaves the store, times
\* to live included, as it was; a call for one email leaves every other
\* email's entry as it was; and after a refused attempt the code generate_otp
\* returned, submitted while its key is still stored, verifies.
C13_FailedAttemptKeepsCode ==
    [][/\ (last'.op = "verify_otp" /\ ~last'.ok) => store' = store
       /\ \A e \in Emails :
             (last'.op \in {"generate_otp", "verify_otp"} /\ last'.email # e)
                => Held(store', Key(e)) = Held(store, Key(e))
       /\ \A e \in Emails :
             (/\ last.op = "verify_otp" /\ last.email = e /\ ~last.ok
              /\ Pending(e) # {}
              /\ gen[e].code # 0
              /\ last'.op = "verify_otp" /\ last'.email = e
              /\ last'.input = PyInt(gen[e].code))
             => last'.ok]_vars

\* C14: right after logout the session holds no expense selected for editing;
\* the edit form is only ever rendered with an expense of the logged-in user,
\* and an update is only ever submitted for an expense of the logged-in user.
C14_LogoutDropsEditSelection ==
    /\ [](act.name = "logout" => ss.edit_expense = Absent)
    /\ []((Page(ss) = "dashboard" /\ Listed(ss) # {} /\ ss.edit_expense # Absent)
             => ss.edit_expense.owner = ss.user_email)
    /\ [][act'.name = "update_expense" => ss.edit_expense.owner = ss.user_email]_vars

====
